---- MODULE Spec2Model ----
(***************************************************************************)
(* Model of the Java comment annotator: JavaParser.parse, the comment      *)
(* generator (CommentGenerator) and FileProcessor.process_java_file.       *)
(*                                                                         *)
(* Text is a sequence of lexemes.  White space is one lexeme per           *)
(* character (" ", "\t", "\n"), so that indentation widths and line splitting    *)
(* are computed as the code computes them; identifiers, keywords and the   *)
(* comment markers are one lexeme each.  The regular expressions of        *)
(* java_parser.py are translated lexeme by lexeme.  An identifier is       *)
(* atomic: no lexeme of the alphabet has a keyword as a proper suffix, so  *)
(* a match never starts inside a lexeme.  The alphabet has no "@", "<",    *)
(* "[", "." or ",", so the annotation group and the generic, array and     *)
(* dotted parts of the patterns always match the empty string.             *)
(***************************************************************************)
EXTENDS Integers, Sequences, FiniteSets, TLC

\* ------------------------------------------------------------------------
\* Bounds of the model
\* ------------------------------------------------------------------------
MaxLines == 3

\* ------------------------------------------------------------------------
\* Lexemes
\* ------------------------------------------------------------------------
NL == "\n"
SP == " "
TAB == "\t"
DocOpen == "/**"
DocClose == "*/"
Star == "*"
Slash == "/"
LineMark == "//"
\* the markdown code fence (three backquotes)
Fence == "<fence>"
KoClass == "keullaeseu"
KoMethod == "mesodeu"
KoField == "pildeu"

\* the value None of Python, distinct from every text (no text holds this lexeme)
None == <<"<None>">>

IsSpace(t) == t \in {SP, NL, TAB}

\* lexemes matched by \w+
Words == {"class", "interface", "enum", "extends", "implements", "throws",
          "public", "private", "protected", "static", "final", "abstract",
          "synchronized", "void", "int", "java",
          "A", "B", "Foo", "bar", "getX", "setX", "isX", "f", "x", "y",
          KoClass, KoMethod, KoField}

IsWord(t) == t \in Words

\* ------------------------------------------------------------------------
\* str methods
\* ------------------------------------------------------------------------
RECURSIVE lstrip(_)
lstrip(s) ==
    IF s # <<>> /\ IsSpace(Head(s)) THEN lstrip(Tail(s)) ELSE s

RECURSIVE rstrip(_)
rstrip(s) ==
    IF s # <<>> /\ IsSpace(s[Len(s)]) THEN rstrip(SubSeq(s, 1, Len(s) - 1)) ELSE s

strip(s) == lstrip(rstrip(s))

\* s.split('\n')
RECURSIVE split(_)
split(s) ==
    IF \A i \in 1..Len(s) : s[i] # NL
    THEN <<s>>
    ELSE LET i == CHOOSE j \in 1..Len(s) : s[j] = NL /\ \A k \in 1..(j - 1) : s[k] # NL
         IN  <<SubSeq(s, 1, i - 1)>> \o split(SubSeq(s, i + 1, Len(s)))

\* s.splitlines(): as split, but a final line terminator opens no further line
splitlines(s) ==
    LET parts == split(s)
    IN  IF parts[Len(parts)] = <<>> THEN SubSeq(parts, 1, Len(parts) - 1) ELSE parts

\* '\n'.join(lines)
RECURSIVE join(_)
join(lines) ==
    IF lines = <<>> THEN <<>>
    ELSE IF Len(lines) = 1 THEN lines[1]
    ELSE lines[1] \o <<NL>> \o join(Tail(lines))

\* s.replace(t, '') for a one-lexeme t
RECURSIVE remove(_, _)
remove(s, t) ==
    IF s = <<>> THEN <<>>
    ELSE IF Head(s) = t THEN remove(Tail(s), t)
    ELSE <<Head(s)>> \o remove(Tail(s), t)

\* s.replace(fence + 'java', '')
RECURSIVE remove_fence_java(_)
remove_fence_java(s) ==
    IF s = <<>> THEN <<>>
    ELSE IF Len(s) >= 2 /\ s[1] = Fence /\ s[2] = "java"
         THEN remove_fence_java(SubSeq(s, 3, Len(s)))
    ELSE <<Head(s)>> \o remove_fence_java(Tail(s))

\* s[:p].count('\n')
count_nl(s, p) == Cardinality({i \in 1..p : s[i] = NL})

\* for \s* and \s+ : the first position at or after p that holds no white space
RECURSIVE skip_space(_, _)
skip_space(s, p) ==
    IF p <= Len(s) /\ IsSpace(s[p]) THEN skip_space(s, p + 1) ELSE p

At(s, p) == IF p >= 1 /\ p <= Len(s) THEN s[p] ELSE "<eof>"

\* ------------------------------------------------------------------------
\* java_parser.py : the patterns
\* ------------------------------------------------------------------------
ClassModifiers == {"public", "private", "protected", "static", "final", "abstract"}
MethodModifiers == ClassModifiers \cup {"synchronized"}

\* the names of the groups of method_pattern
GroupNames == {"comment", "annotations", "modifiers", "return_type", "name", "params", "throws"}

NoMatch == [ok |-> FALSE, start |-> 0, end |-> 0, name |-> "", comment |-> None]

NoTail == [ok |-> FALSE, end |-> 0, name |-> ""]

\* (?:public|...)\s+ repeated: the position after the modifiers that start at q
RECURSIVE class_modifiers(_, _)
class_modifiers(s, q) ==
    IF At(s, q) \in ClassModifiers /\ IsSpace(At(s, q + 1))
    THEN class_modifiers(s, skip_space(s, q + 1))
    ELSE q

\* the optional clause \s+kw\s+\w+ after the lexeme at n: the last lexeme it takes
opt_clause(s, n, kw) ==
    LET a == skip_space(s, n + 1)
        b == skip_space(s, a + 1)
    IN  IF IsSpace(At(s, n + 1)) /\ At(s, a) = kw /\ IsSpace(At(s, a + 1)) /\ IsWord(At(s, b))
        THEN b ELSE n

\* class\s+ name, the extends and implements clauses, \s* and the brace, with the
\* keyword at k
class_decl(s, k) ==
    LET n == skip_space(s, k + 1)
        g == skip_space(s, opt_clause(s, opt_clause(s, n, "extends"), "implements") + 1)
    IN  IF At(s, k) = "class" /\ IsSpace(At(s, k + 1)) /\ IsWord(At(s, n)) /\ At(s, g) = "{"
        THEN [ok |-> TRUE, end |-> g, name |-> s[n]]
        ELSE NoTail

\* class_pattern without its comment group, matched at q
class_tail(s, q) == class_decl(s, class_modifiers(s, q))

\* name \s* ( params ) throws? \s* { with the name at n
method_rest(s, n) ==
    LET a == skip_space(s, n + 1)
        closes == {c \in (a + 1)..Len(s) : s[c] = ")"}
        c == IF closes = {} THEN 0 ELSE CHOOSE m \in closes : \A o \in closes : m <= o
        t == skip_space(s, c + 1)
        run == CHOOSE r \in (t + 1)..(Len(s) + 1) :
                   /\ \A j \in (t + 1)..(r - 1) : IsSpace(s[j]) \/ IsWord(s[j])
                   /\ ~(IsSpace(At(s, r)) \/ IsWord(At(s, r)))
    IN  IF ~(IsWord(At(s, n)) /\ At(s, a) = "(" /\ c # 0)
        THEN NoTail
        ELSE IF At(s, t) = "{"
        THEN [ok |-> TRUE, end |-> t, name |-> s[n]]
        ELSE IF IsSpace(At(s, c + 1)) /\ At(s, t) = "throws" /\ IsSpace(At(s, t + 1))
                /\ run >= t + 3 /\ At(s, run) = "{"
        THEN [ok |-> TRUE, end |-> run, name |-> s[n]]
        ELSE NoTail

\* the regex engine takes the first alternative that leads to a match
first_ok(a, b) == IF a.ok THEN a ELSE b

\* return_type? name ... : the return type is tried first
method_sig(s, q) ==
    first_ok(IF IsWord(At(s, q)) /\ IsSpace(At(s, q + 1))
             THEN method_rest(s, skip_space(s, q + 1))
             ELSE NoTail,
             method_rest(s, q))

\* method_pattern without its comment group, matched at q: as many modifiers as
\* lead to a match
RECURSIVE method_tail(_, _)
method_tail(s, q) ==
    first_ok(IF At(s, q) \in MethodModifiers /\ IsSpace(At(s, q + 1))
             THEN method_tail(s, skip_space(s, q + 1))
             ELSE NoTail,
             method_sig(s, q))

\* where the rest of a pattern can start when the match starts at p: after the
\* group /\*\*.*?\*/\s* for each closing marker, or at p when p opens no comment
candidate_starts(s, p) ==
    IF At(s, p) = DocOpen
    THEN {skip_space(s, e + 1) : e \in {i \in (p + 1)..Len(s) : s[i] = DocClose}}
    ELSE {p}

\* the match at p, given the result of the rest of the pattern at each candidate
\* start: .*? takes the nearest closing marker after which the rest matches
pick_match(s, p, tails) ==
    LET good == {q \in DOMAIN tails : tails[q].ok}
        q == CHOOSE m \in good : \A o \in good : m <= o
    IN  IF good = {} THEN NoMatch
        ELSE [ok |-> TRUE, start |-> p, end |-> tails[q].end, name |-> tails[q].name,
              comment |-> IF At(s, p) = DocOpen THEN SubSeq(s, p, q - 1) ELSE None]

class_pattern(s, p) ==
    pick_match(s, p, [q \in candidate_starts(s, p) |-> class_tail(s, q)])

method_pattern(s, p) ==
    pick_match(s, p, [q \in candidate_starts(s, p) |-> method_tail(s, q)])

\* pattern.finditer(content), given the match of the pattern at every position:
\* leftmost matches, the search resuming after each
RECURSIVE finditer(_, _)
finditer(at, p) ==
    IF p > Len(at) THEN <<>>
    ELSE IF at[p].ok THEN <<at[p]>> \o finditer(at, at[p].end + 1)
    ELSE finditer(at, p + 1)

class_finditer(s) == finditer([p \in 1..Len(s) |-> class_pattern(s, p)], 1)

method_finditer(s) == finditer([p \in 1..Len(s) |-> method_pattern(s, p)], 1)

\* ------------------------------------------------------------------------
\* java_parser.py : JavaParser
\* ------------------------------------------------------------------------
\* bool(x) of an Optional[str]
Truthy(x) == x # None /\ x # <<>>

\* one line of _extract_comment: the markers removed, stripped, a leading
\* asterisk and one white space after it removed
clean_line(line) ==
    LET l == strip(remove(remove(line, DocOpen), DocClose))
    IN  IF l # <<>> /\ Head(l) = Star
        THEN IF Len(l) >= 2 /\ IsSpace(l[2]) THEN SubSeq(l, 3, Len(l)) ELSE Tail(l)
        ELSE l

extract_comment(comment) ==
    IF ~Truthy(comment) THEN None
    ELSE LET lines == split(comment)
             cleaned == SelectSeq([i \in 1..Len(lines) |-> clean_line(lines[i])],
                                  LAMBDA l : l # <<>>)
         IN  join(cleaned)

\* match.group(n1, n2) raises IndexError when a name is not a group of the pattern
group_raises(names) == \E n \in names : n \notin GroupNames

\* _extract_method_info: the first statement after name = match.group('name') is
\* match.group('return_type', ''), and every exception ends in return None.
\* The dict is modelled by its 'name' entry, as a one-element tuple.
extract_method_info(m) ==
    IF group_raises({"return_type", ""}) THEN None
    ELSE <<m.name>>

JavaElement(type, name, line_number, existing_comment) ==
    [type |-> type, name |-> name, line_number |-> line_number,
     existing_comment |-> existing_comment]

\* elements.append(JavaElement(...)) for the matches a loop of parse keeps
to_elements(type, content, kept) ==
    [i \in 1..Len(kept) |->
        JavaElement(type, kept[i].name, count_nl(content, kept[i].start - 1) + 1,
                    extract_comment(kept[i].comment))]

\* the first loop of parse
class_elements(content) ==
    to_elements("class", content,
                SelectSeq(class_finditer(content),
                          LAMBDA m : ~Truthy(extract_comment(m.comment))))

\* name.startswith(('get', 'set', 'is')), over the identifiers of the alphabet
StartsWithAccessor(name) == name \in {"getX", "setX", "isX"}

\* as keeps_method, without the tests on what _extract_method_info returned
keeps_method_unfiltered(m, method_info) == ~Truthy(extract_comment(m.comment))

\* the tests of the second loop of parse, given what _extract_method_info returned
keeps_method(m, method_info) ==
    /\ method_info # None
    /\ ~Truthy(extract_comment(m.comment))
    /\ ~StartsWithAccessor(method_info[1])

\* the second loop of parse
method_elements(content) ==
    to_elements("method", content,
                SelectSeq(method_finditer(content),
                          LAMBDA m : keeps_method(m, extract_method_info(m))))

\* as insert_last, the order of the keys reversed
insert_first(front, last) ==
    LET n == Cardinality({i \in 1..Len(front) : front[i].line_number > last.line_number})
    IN  SubSeq(front, 1, n) \o <<last>> \o SubSeq(front, n + 1, Len(front))

\* where list.sort puts an element that follows the sorted ones: after those
\* with a key not greater (the sort is stable)
insert_last(front, last) ==
    LET n == Cardinality({i \in 1..Len(front) : front[i].line_number <= last.line_number})
    IN  SubSeq(front, 1, n) \o <<last>> \o SubSeq(front, n + 1, Len(front))

\* elements.sort(key=line_number)
RECURSIVE sort_by_line(_)
sort_by_line(es) ==
    IF es = <<>> THEN <<>>
    ELSE insert_last(sort_by_line(SubSeq(es, 1, Len(es) - 1)), es[Len(es)])

parse(content) == sort_by_line(class_elements(content) \o method_elements(content))

\* ------------------------------------------------------------------------
\* comment_generator.py : CommentGenerator
\* ------------------------------------------------------------------------
max_retries == 5
retry_delay == 15
retry_multiplier == 2

\* content.startswith('*') and content[1:], lexeme-wise: "*/" is "*" then "/"
starts_with_star(c) == c # <<>> /\ Head(c) \in {Star, DocClose}
drop_first_char(c) == IF Head(c) = DocClose THEN <<Slash>> \o Tail(c) ELSE Tail(c)

\* one interior line of _format_comment
format_line(line) ==
    LET stripped == strip(line)
        content == IF starts_with_star(stripped)
                   THEN strip(drop_first_char(stripped)) ELSE stripped
    IN  IF content = <<>> THEN <<SP, Star>> ELSE <<SP, Star, SP>> \o content

format_comment(comment) ==
    IF comment = <<>> THEN <<>>
    ELSE LET unfenced == strip(remove(remove_fence_java(comment), Fence))
             opened == IF unfenced # <<>> /\ Head(unfenced) = DocOpen
                       THEN unfenced
                       ELSE <<DocOpen, NL, SP, Star, SP>> \o unfenced
             closed == IF opened[Len(opened)] = DocClose
                       THEN opened
                       ELSE rstrip(opened) \o <<NL, SP, DocClose>>
             lines == split(closed)
         IN  join([i \in 1..Len(lines) |->
                     IF i = 1 THEN <<DocOpen>>
                     ELSE IF i = Len(lines) THEN <<SP, DocClose>>
                     ELSE format_line(lines[i])])

Max(a, b) == IF a >= b THEN a ELSE b
Min(a, b) == IF a <= b THEN a ELSE b

\* lines[start:end] for 0 <= start and 0 <= end <= len(lines)
slice(lines, start, end) == SubSeq(lines, start + 1, end)

\* as class_context, the window one line longer
class_context_long(element, context_lines) ==
    join(slice(context_lines,
               Max(0, (element.line_number - 1) - 10),
               Min(Len(context_lines), (element.line_number - 1) + 21)))

\* _generate_class_comment, lines 182-188: class_line = element.line_number - 1
class_context(element, context_lines) ==
    join(slice(context_lines,
               Max(0, (element.line_number - 1) - 10),
               Min(Len(context_lines), (element.line_number - 1) + 20)))

\* _generate_method_comment, lines 223-229
method_context(element, context_lines) ==
    join(slice(context_lines,
               Max(0, (element.line_number - 1) - 5),
               Min(Len(context_lines), (element.line_number - 1) + 15)))

\* _generate_field_comment, lines 284-290
field_context(element, context_lines) ==
    join(slice(context_lines,
               Max(0, (element.line_number - 1) - 5),
               Min(Len(context_lines), (element.line_number - 1) + 5)))

\* the context of the prompt generate_comment builds for an element
surrounding_context(element, context_lines) ==
    IF element.type \in {"class", "interface", "enum"}
    THEN class_context(element, context_lines)
    ELSE IF element.type = "method" THEN method_context(element, context_lines)
    ELSE IF element.type = "field" THEN field_context(element, context_lines)
    ELSE <<>>

\* the wait before the retry that follows the failed attempt number retry_count + 1
wait_time(retry_count) == retry_delay * (retry_multiplier ^ retry_count)

\* as should_retry, with the bound on the attempts off by one
should_retry_one_more(error, retry_count) ==
    error = "overloaded" /\ retry_count < max_retries

\* the test of the except branch of _call_claude_api
should_retry(error, retry_count) ==
    error = "overloaded" /\ retry_count < max_retries - 1

\* the tail of _generate_class_comment and of _generate_method_comment, given what
\* _call_claude_api returned
generate_class_comment(element, api_result) ==
    IF api_result = None
    THEN <<DocOpen, NL, SP, Star, SP, element.name, SP, KoClass, NL, SP, DocClose>>
    ELSE api_result

\* as generate_method_comment, without the test for the unavailable signal
generate_method_comment_unchecked(element, api_result) == api_result

generate_method_comment(element, api_result) ==
    IF api_result = None
    THEN <<DocOpen, NL, SP, Star, SP, element.name, SP, KoMethod, NL, SP, DocClose>>
    ELSE api_result

\* the try branch of _generate_field_comment, given the text of the response
field_format(text) ==
    LET c == remove(strip(text), Fence)
    IN  IF c # <<>> /\ Head(c) = LineMark THEN c ELSE <<LineMark, SP>> \o c

\* the except branch of _generate_field_comment
field_fallback(element) == <<LineMark, SP, element.name, SP, KoField>>

ClassTypes == {"class", "interface", "enum"}

\* the dispatch of generate_comment for the types that call the backend
block_comment(element, api_result) ==
    IF element.type \in ClassTypes THEN generate_class_comment(element, api_result)
    ELSE generate_method_comment(element, api_result)

\* the comments generate_comment can return for an element, over the texts the
\* backend may answer and the unavailable signal
generate_results(element, texts) ==
    IF element.type = "field"
    THEN {field_format(t) : t \in texts} \cup {field_fallback(element)}
    ELSE {block_comment(element, format_comment(t)) : t \in texts}
            \cup {block_comment(element, None)}

\* ------------------------------------------------------------------------
\* file_processor.py : FileProcessor
\* ------------------------------------------------------------------------
get_indent(line) == Len(line) - Len(lstrip(line))

\* ' ' * indent
spaces(n) == [i \in 1..n |-> SP]

indent_comment(comment, indent) ==
    LET lines == splitlines(comment)
    IN  join([i \in 1..Len(lines) |->
                IF strip(lines[i]) # <<>> THEN indent \o lines[i] ELSE lines[i]])

\* list.insert(position, comment) on a copy; position counts from 0
insert_comment(lines, position, comment) ==
    SubSeq(lines, 1, position) \o <<comment>> \o SubSeq(lines, position + 1, Len(lines))

\* ------------------------------------------------------------------------
\* Inputs
\* ------------------------------------------------------------------------
ClassFooLine == <<"class", SP, "Foo", SP, "{">>
ClassBLine == <<SP, SP, "class", SP, "B", SP, "{">>
MethodBarLine == <<SP, SP, "public", SP, "void", SP, "bar", "(", ")", SP, "{", "}">>
CloseLine == <<"}">>
BlankLine == <<>>
LineDocLine == <<LineMark, SP, "x">>
EmptyDocLine == <<DocOpen, SP, DocClose>>
DocLine == <<DocOpen, SP, "x", SP, DocClose>>

LineAlphabet == {ClassFooLine, ClassBLine, MethodBarLine, CloseLine, BlankLine,
                 LineDocLine, EmptyDocLine, DocLine}

\* the source files: up to MaxLines lines, joined by line terminators (a final
\* blank line makes the text end with a terminator)
Files == {join(ls) : ls \in UNION {[1..n -> LineAlphabet] : n \in 0..MaxLines}}

CanonicalText == <<DocOpen, NL, SP, Star, SP, "x", NL, SP, DocClose>>

\* the texts the backend answers
BackendTexts == {<<>>,
                 <<"x">>,
                 <<"x", NL, "y">>,
                 <<DocOpen, SP, "x", SP, DocClose>>,
                 CanonicalText,
                 <<Fence, "java", NL>> \o CanonicalText \o <<NL, Fence>>,
                 <<Fence, "java", NL, Fence>>,
                 <<LineMark, SP, "x">>}

\* the elements generate_comment is called with directly
DirectElements == {JavaElement("class", "Foo", 1, None),
                   JavaElement("interface", "A", 1, None),
                   JavaElement("enum", "B", 1, None),
                   JavaElement("method", "bar", 2, None),
                   JavaElement("field", "f", 2, None)}

NoElement == JavaElement("none", "", 0, None)

\* ------------------------------------------------------------------------
\* State
\* ------------------------------------------------------------------------
VARIABLES
    pc,              \* where the run is
    disk,            \* the text of the file on disk
    original,        \* the text of the file when the run began
    content_lines,   \* process_java_file: content.splitlines()
    elements,        \* process_java_file: parser.parse(content)
    modified_lines,  \* process_java_file: the buffer
    k,               \* process_java_file: the index of the next element of the loop
    comments,        \* the indented comments inserted so far, in order
    writes,          \* how many times the file was written
    element,         \* generate_comment: its element
    comment,         \* generate_comment: what it returned
    source,          \* whether comment is the backend's text or the placeholder
    retry_count,     \* _call_claude_api: its parameter
    calls,           \* backend calls made for the current prompt
    waits,           \* the time.sleep arguments for the current prompt, in order
    last_error,      \* the kind of the last backend error for the current prompt
    context,         \* the lines around the element that the prompt holds
    java_files,      \* process_java_files: the text on disk of each file of its list
    file_pos,        \* process_java_files: the index of the file of the current iteration
    processed,       \* the indices process_java_file was called with, in order
    caught           \* the indices whose exception process_java_files caught, in order

file_vars == <<disk, original, content_lines, elements, modified_lines, k, comments, writes>>
gen_vars == <<element, comment, source, retry_count, calls, waits, last_error, context>>
run_vars == <<java_files, file_pos, processed, caught>>
vars == <<pc, disk, original, content_lines, elements, modified_lines, k, comments, writes,
          element, comment, source, retry_count, calls, waits, last_error, context,
          java_files, file_pos, processed, caught>>

GenIdle ==
    /\ element = NoElement
    /\ comment = None
    /\ source = "none"
    /\ retry_count = 0
    /\ calls = 0
    /\ waits = <<>>
    /\ last_error = "none"
    /\ context = <<>>

FileIdle ==
    /\ original = disk
    /\ content_lines = <<>>
    /\ elements = <<>>
    /\ modified_lines = <<>>
    /\ k = 0
    /\ comments = <<>>
    /\ writes = 0

\* process_java_files is not running
RunIdle ==
    /\ java_files = <<>>
    /\ file_pos = 0
    /\ processed = <<>>
    /\ caught = <<>>

\* ------------------------------------------------------------------------
\* process_java_file on one file
\* ------------------------------------------------------------------------
Init ==
    /\ pc = "idle"
    /\ disk \in Files
    /\ FileIdle
    /\ GenIdle
    /\ RunIdle

\* lines 50-67: read, split, parse, copy
ReadFile ==
    /\ pc = "idle"
    /\ content_lines' = splitlines(disk)
    /\ elements' = parse(disk)
    /\ modified_lines' = splitlines(disk)
    /\ k' = 1
    /\ pc' = "loop"
    /\ UNCHANGED <<disk, original, comments, writes>>
    /\ UNCHANGED gen_vars
    /\ UNCHANGED run_vars

\* open() for reading raises: lines 87-90 log and raise again
ReadRaises ==
    /\ pc = "idle"
    /\ pc' = "raised"
    /\ UNCHANGED file_vars
    /\ UNCHANGED gen_vars
    /\ UNCHANGED run_vars

\* as InsertElement, but the file is saved in every iteration
InsertElementAndSave(c) ==
    /\ pc = "loop"
    /\ k <= Len(elements)
    /\ LET indent == get_indent(modified_lines[elements[k].line_number])
           indented_comment == indent_comment(c, spaces(indent))
       IN  /\ modified_lines' = insert_comment(modified_lines,
                                               elements[k].line_number - 1,
                                               indented_comment)
           /\ comments' = Append(comments, indented_comment)
    /\ disk' = join(modified_lines')
    /\ writes' = writes + 1
    /\ element' = elements[k]
    /\ comment' = c
    /\ source' = IF c = block_comment(elements[k], None) THEN "fallback" ELSE "backend"
    /\ context' = surrounding_context(elements[k], content_lines)
    /\ k' = k + 1
    /\ UNCHANGED <<pc, original, content_lines, elements>>
    /\ UNCHANGED <<retry_count, calls, waits, last_error>>
    /\ UNCHANGED run_vars

\* lines 68-81: one iteration of the loop, generate_comment returning c
InsertElement(c) ==
    /\ pc = "loop"
    /\ k <= Len(elements)
    /\ LET indent == get_indent(modified_lines[elements[k].line_number])
           indented_comment == indent_comment(c, spaces(indent))
       IN  /\ modified_lines' = insert_comment(modified_lines,
                                               elements[k].line_number - 1,
                                               indented_comment)
           /\ comments' = Append(comments, indented_comment)
    /\ element' = elements[k]
    /\ comment' = c
    /\ source' = IF c = block_comment(elements[k], None) THEN "fallback" ELSE "backend"
    /\ context' = surrounding_context(elements[k], content_lines)
    /\ k' = k + 1
    /\ UNCHANGED <<pc, disk, original, content_lines, elements, writes>>
    /\ UNCHANGED <<retry_count, calls, waits, last_error>>
    /\ UNCHANGED run_vars

ProcessElement ==
    /\ pc = "loop"
    /\ k <= Len(elements)
    /\ \E c \in generate_results(elements[k], BackendTexts) : InsertElement(c)

\* an exception leaves the loop body (a failing debug print, an error the
\* generator does not handle): lines 87-90 log and raise again
ElementRaises ==
    /\ pc = "loop"
    /\ k <= Len(elements)
    /\ pc' = "raised"
    /\ UNCHANGED file_vars
    /\ UNCHANGED gen_vars
    /\ UNCHANGED run_vars

\* lines 84-85
WriteFile ==
    /\ pc = "loop"
    /\ k > Len(elements)
    /\ disk' = join(modified_lines)
    /\ writes' = writes + 1
    /\ pc' = "done"
    /\ UNCHANGED <<original, content_lines, elements, modified_lines, k, comments>>
    /\ UNCHANGED gen_vars
    /\ UNCHANGED run_vars

\* open() for writing raises before the file is truncated
WriteRaises ==
    /\ pc = "loop"
    /\ k > Len(elements)
    /\ pc' = "raised"
    /\ UNCHANGED file_vars
    /\ UNCHANGED gen_vars
    /\ UNCHANGED run_vars

Next ==
    \/ ReadFile
    \/ ReadRaises
    \/ ProcessElement
    \/ ElementRaises
    \/ WriteFile
    \/ WriteRaises

Spec == Init /\ [][Next]_vars

\* ------------------------------------------------------------------------
\* generate_comment on one element, call by call
\* ------------------------------------------------------------------------
GenInit ==
    /\ pc = "idle"
    /\ disk = <<>>
    /\ FileIdle
    /\ GenIdle
    /\ RunIdle

\* lines 17-27: the dispatch on the type, up to the first backend call
GenerateComment(e) ==
    /\ pc = "idle"
    /\ element' = e
    /\ context' = surrounding_context(e, content_lines)
    /\ pc' = IF e.type = "field" THEN "field_api" ELSE "api"
    /\ UNCHANGED <<comment, source, retry_count, calls, waits, last_error>>
    /\ UNCHANGED file_vars
    /\ UNCHANGED run_vars

\* _call_claude_api, lines 87-130: the backend answers text
ApiReturns(text) ==
    /\ pc = "api"
    /\ calls' = calls + 1
    /\ comment' = block_comment(element, format_comment(text))
    /\ source' = "backend"
    /\ pc' = "returned"
    /\ UNCHANGED <<element, context, retry_count, waits, last_error>>
    /\ UNCHANGED file_vars
    /\ UNCHANGED run_vars

\* _call_claude_api, lines 132-142: the backend call raises
ApiRaises(error) ==
    /\ pc = "api"
    /\ calls' = calls + 1
    /\ last_error' = error
    /\ IF should_retry(error, retry_count)
       THEN /\ waits' = Append(waits, wait_time(retry_count))
            /\ retry_count' = retry_count + 1
            /\ UNCHANGED <<pc, comment, source>>
       ELSE /\ comment' = block_comment(element, None)
            /\ source' = "fallback"
            /\ pc' = "returned"
            /\ UNCHANGED <<waits, retry_count>>
    /\ UNCHANGED <<element, context>>
    /\ UNCHANGED file_vars
    /\ UNCHANGED run_vars

\* _generate_field_comment, lines 308-338
FieldReturns(text) ==
    /\ pc = "field_api"
    /\ calls' = calls + 1
    /\ comment' = field_format(text)
    /\ source' = "backend"
    /\ pc' = "returned"
    /\ UNCHANGED <<element, context, retry_count, waits, last_error>>
    /\ UNCHANGED file_vars
    /\ UNCHANGED run_vars

\* _generate_field_comment, lines 340-342
FieldRaises(error) ==
    /\ pc = "field_api"
    /\ calls' = calls + 1
    /\ last_error' = error
    /\ comment' = field_fallback(element)
    /\ source' = "fallback"
    /\ pc' = "returned"
    /\ UNCHANGED <<element, context, retry_count, waits>>
    /\ UNCHANGED file_vars
    /\ UNCHANGED run_vars

BackendErrors == {"overloaded", "other"}

GenNext ==
    \/ \E e \in DirectElements : GenerateComment(e)
    \/ \E t \in BackendTexts : ApiReturns(t)
    \/ \E err \in BackendErrors : ApiRaises(err)
    \/ \E t \in BackendTexts : FieldReturns(t)
    \/ \E err \in BackendErrors : FieldRaises(err)

GenSpec == GenInit /\ [][GenNext]_vars

\* ------------------------------------------------------------------------
\* process_java_files on a list of files
\* ------------------------------------------------------------------------
MaxFiles == 3

\* the texts of the listed files: one with an element, one without
RunFiles == {ClassFooLine, CloseLine}

RunInit ==
    /\ pc = "next_file"
    /\ java_files \in UNION {[1..n -> RunFiles] : n \in 0..MaxFiles}
    /\ file_pos = 1
    /\ processed = <<>>
    /\ caught = <<>>
    /\ disk = <<>>
    /\ FileIdle
    /\ GenIdle

\* lines 40-43: the loop takes the next path and calls process_java_file
StartFile ==
    /\ pc = "next_file"
    /\ file_pos <= Len(java_files)
    /\ processed' = Append(processed, file_pos)
    /\ disk' = java_files[file_pos]
    /\ original' = java_files[file_pos]
    /\ content_lines' = <<>>
    /\ elements' = <<>>
    /\ modified_lines' = <<>>
    /\ k' = 0
    /\ comments' = <<>>
    /\ writes' = 0
    /\ element' = NoElement
    /\ comment' = None
    /\ source' = "none"
    /\ context' = <<>>
    /\ pc' = "idle"
    /\ UNCHANGED <<retry_count, calls, waits, last_error>>
    /\ UNCHANGED <<java_files, file_pos, caught>>

\* line 43: process_java_file returned
FileReturns ==
    /\ pc = "done"
    /\ java_files' = [java_files EXCEPT ![file_pos] = disk]
    /\ file_pos' = file_pos + 1
    /\ pc' = "next_file"
    /\ UNCHANGED <<processed, caught>>
    /\ UNCHANGED file_vars
    /\ UNCHANGED gen_vars

\* as CatchException, without the try statement: the exception leaves the loop
PropagateException ==
    /\ pc = "raised"
    /\ pc' = "aborted"
    /\ UNCHANGED run_vars
    /\ UNCHANGED file_vars
    /\ UNCHANGED gen_vars

\* lines 44-46: the exception process_java_file raised again is caught and logged
CatchException ==
    /\ pc = "raised"
    /\ caught' = Append(caught, file_pos)
    /\ java_files' = [java_files EXCEPT ![file_pos] = disk]
    /\ file_pos' = file_pos + 1
    /\ pc' = "next_file"
    /\ UNCHANGED processed
    /\ UNCHANGED file_vars
    /\ UNCHANGED gen_vars

\* the list is exhausted: process_java_files returns
RunReturns ==
    /\ pc = "next_file"
    /\ file_pos > Len(java_files)
    /\ pc' = "run_done"
    /\ UNCHANGED run_vars
    /\ UNCHANGED file_vars
    /\ UNCHANGED gen_vars

RunNext ==
    \/ StartFile
    \/ ReadFile
    \/ ReadRaises
    \/ ProcessElement
    \/ ElementRaises
    \/ WriteFile
    \/ WriteRaises
    \/ FileReturns
    \/ CatchException
    \/ RunReturns

RunSpec == RunInit /\ [][RunNext]_vars

\* ------------------------------------------------------------------------
\* JavaParser.parse on one text
\* ------------------------------------------------------------------------
MaxParseLines == 2

InterfaceLine == <<"public", SP, "interface", SP, "A", SP, "{">>
EnumLine == <<"enum", SP, "B", SP, "{">>
GetterLine == <<SP, SP, "public", SP, "int", SP, "getX", "(", ")", SP, "{">>
SetterLine == <<SP, SP, "void", SP, "setX", "(", "int", SP, "x", ")", SP, "{">>
IsLine == <<SP, SP, "isX", "(", ")", SP, "{">>
TwoClassLine == <<"class", SP, "Foo", SP, "{", SP, "class", SP, "B", SP, "{">>
TabClassLine == <<TAB, "class", SP, "B", SP, "{">>

ParseLineAlphabet == {ClassFooLine, ClassBLine, MethodBarLine, CloseLine, BlankLine,
                      DocLine, EmptyDocLine, InterfaceLine, EnumLine, GetterLine,
                      SetterLine, IsLine, TwoClassLine, TabClassLine}

\* the texts parse is called with
ParseFiles ==
    {join(ls) : ls \in UNION {[1..n -> ParseLineAlphabet] : n \in 0..MaxParseLines}}

ParseInit ==
    /\ pc = "idle"
    /\ disk \in ParseFiles
    /\ FileIdle
    /\ GenIdle
    /\ RunIdle

\* lines 68-120: parser.parse(content)
ParseCall ==
    /\ pc = "idle"
    /\ elements' = parse(disk)
    /\ pc' = "parsed"
    /\ UNCHANGED <<disk, original, content_lines, modified_lines, k, comments, writes>>
    /\ UNCHANGED gen_vars
    /\ UNCHANGED run_vars

ParseNext == ParseCall

ParseSpec == ParseInit /\ [][ParseNext]_vars

\* ------------------------------------------------------------------------
\* process_java_file on indented declarations
\* ------------------------------------------------------------------------
\* texts whose declarations are indented with spaces and with a tab
IndentFiles == {ClassBLine,
                TabClassLine,
                join(<<BlankLine, ClassBLine>>),
                join(<<ClassFooLine, ClassBLine>>),
                join(<<ClassBLine, TabClassLine>>)}

IndentInit ==
    /\ pc = "idle"
    /\ disk \in IndentFiles
    /\ FileIdle
    /\ GenIdle
    /\ RunIdle

IndentSpec == IndentInit /\ [][Next]_vars

\* ------------------------------------------------------------------------
\* generate_comment on the elements of a numbered file
\* ------------------------------------------------------------------------
MaxContextLines == 32

\* a file of n lines, line i holding the numeral of i
numbered_lines(n) == [i \in 1..n |-> <<ToString(i)>>]

\* an element of each kind at each line of the file
ContextElements ==
    {JavaElement(t, "Foo", s, None) :
        t \in {"class", "method", "field"}, s \in 1..Len(content_lines)}

ContextInit ==
    /\ pc = "idle"
    /\ \E n \in 0..MaxContextLines :
          /\ content_lines = numbered_lines(n)
          /\ disk = join(numbered_lines(n))
    /\ original = disk
    /\ elements = <<>>
    /\ modified_lines = <<>>
    /\ k = 0
    /\ comments = <<>>
    /\ writes = 0
    /\ GenIdle
    /\ RunIdle

ContextNext ==
    \/ \E e \in ContextElements : GenerateComment(e)
    \/ \E t \in BackendTexts : ApiReturns(t)
    \/ \E err \in BackendErrors : ApiRaises(err)
    \/ \E t \in BackendTexts : FieldReturns(t)
    \/ \E err \in BackendErrors : FieldRaises(err)

ContextSpec == ContextInit /\ [][ContextNext]_vars

\* ------------------------------------------------------------------------
\* Properties of generate_comment (under GenSpec)
\* ------------------------------------------------------------------------
Lexemes(s) == {s[i] : i \in 1..Len(s)}

\* first line "/**", last line " */", interior lines " *" or " * " and trimmed content
CanonicalBlock(c) ==
    LET lines == split(c)
    IN  /\ Len(lines) >= 2
        /\ lines[1] = <<DocOpen>>
        /\ lines[Len(lines)] = <<SP, DocClose>>
        /\ \A i \in 2..(Len(lines) - 1) :
              \/ lines[i] = <<SP, Star>>
              \/ /\ Len(lines[i]) >= 4
                 /\ SubSeq(lines[i], 1, 3) = <<SP, Star, SP>>
                 /\ ~IsSpace(lines[i][4])
                 /\ ~IsSpace(lines[i][Len(lines[i])])

\* C6: whatever text the backend returns for a class-like or method element, the
\* comment generate_comment returns is a canonical block: first line exactly "/**",
\* a distinct last line exactly " */", interior lines " *" or " * content".
C6_CanonicalShape ==
    (pc = "returned" /\ source = "backend" /\ element.type \in ClassTypes \cup {"method"})
        => CanonicalBlock(comment)

BackoffSchedule == <<15, 30, 60, 120>>

\* C7: _call_claude_api makes at most 5 backend calls for one prompt; the waits
\* before attempts 2, 3, 4, 5 are 15, 30, 60, 120; after a 5th failed attempt or a
\* non-transient failure there is no further call and the unavailable signal is
\* returned.
C7_RetryPolicy ==
    (element.type \in ClassTypes \cup {"method"}) =>
        /\ calls <= 5
        /\ Len(waits) <= 4
        /\ waits = SubSeq(BackoffSchedule, 1, Len(waits))
        /\ (pc = "api" => calls = Len(waits) /\ calls < 5 /\ last_error # "other")
        /\ (pc = "returned" => calls = Len(waits) + 1)
        /\ (pc = "returned" /\ last_error = "other" => source = "fallback")
        /\ (pc = "returned" /\ source = "fallback" => last_error = "other" \/ calls = 5)

C7_Witness ==
    /\ pc = "returned"
    /\ element.type = "class"
    /\ calls = 5
    /\ waits = BackoffSchedule
    /\ last_error = "overloaded"
    /\ source = "fallback"

\* C8: for an element of any kind, a transient overload error is retried per the
\* backoff policy (5 attempts, waits 15, 30, 60, 120) before the placeholder is
\* used, and never leaves generate_comment as an exception.
C8_OverloadRetried ==
    /\ pc # "raised"
    /\ (pc = "returned" /\ source = "fallback" /\ last_error = "overloaded")
          => (calls = max_retries /\ waits = BackoffSchedule)

\* C9: when the backend is unavailable, the comment returned for a class, method or
\* field element is a non-empty placeholder that holds the element's name: a block
\* from "/**" to " */" for class and method, one line starting with "//" for field.
C9_Placeholder ==
    (pc = "returned" /\ source = "fallback" /\ element.type \in {"class", "method", "field"})
        => /\ comment # <<>>
           /\ comment # None
           /\ element.name \in Lexemes(comment)
           /\ IF element.type = "field"
              THEN Head(comment) = LineMark /\ NL \notin Lexemes(comment)
              ELSE LET lines == split(comment)
                   IN  /\ Len(lines) >= 2
                       /\ lines[1] = <<DocOpen>>
                       /\ lines[Len(lines)] = <<SP, DocClose>>

C9_Witness ==
    /\ pc = "returned"
    /\ source = "fallback"
    /\ element.type = "method"
    /\ last_error = "other"
    /\ comment = <<DocOpen, NL, SP, Star, SP, "bar", SP, KoMethod, NL, SP, DocClose>>

\* ------------------------------------------------------------------------
\* Properties of process_java_file (under Spec)
\* ------------------------------------------------------------------------
\* the reference strategy: the comments inserted at the recorded positions, the
\* last element first
RECURSIVE ReferenceBuffer(_, _, _)
ReferenceBuffer(lines, es, cs) ==
    IF es = <<>> THEN lines
    ELSE LET n == Len(es)
         IN  ReferenceBuffer(insert_comment(lines, es[n].line_number - 1, cs[n]),
                             SubSeq(es, 1, n - 1), SubSeq(cs, 1, n - 1))

\* C1: the text written by the insertion loop is line-identical to the text of the
\* reference strategy (same comments, descending order, recorded positions), so
\* every comment sits immediately before its own element's declaration line.
C1_MatchesReference ==
    pc = "done" =>
        splitlines(disk) = splitlines(join(ReferenceBuffer(content_lines, elements, comments)))

RECURSIVE SumLines(_)
SumLines(cs) ==
    IF cs = <<>> THEN 0 ELSE Len(splitlines(Head(cs))) + SumLines(Tail(cs))

\* a occurs in b as a subsequence
RECURSIVE IsSubseq(_, _)
IsSubseq(a, b) ==
    IF a = <<>> THEN TRUE
    ELSE IF b = <<>> THEN FALSE
    ELSE IF Head(a) = Head(b) THEN IsSubseq(Tail(a), Tail(b))
    ELSE IsSubseq(a, Tail(b))

\* C2: the written file has as many lines as the original plus the lines of the
\* inserted comments, and holds the original lines in their order, none dropped
\* or duplicated.
C2_LineCount ==
    pc = "done" =>
        /\ Len(splitlines(disk)) = Len(splitlines(original)) + SumLines(comments)
        /\ IsSubseq(splitlines(original), splitlines(disk))

FooBarFile == join(<<ClassFooLine, MethodBarLine, CloseLine>>)

Brief(es) == [i \in 1..Len(es) |-> <<es[i].type, es[i].name, es[i].line_number>>]

\* C3: parse returns every undocumented non-accessor method declaration with a
\* body as a method element at the line where it begins; for the file
\* "class Foo {", "  public void bar() {}", "}" it returns exactly Class Foo at
\* line 1 and Method bar at line 2.
C3_MethodsReturned ==
    k >= 1 =>
        /\ \A m \in Lexemes(method_finditer(original)) :
              (m.comment = None /\ ~StartsWithAccessor(m.name)) =>
                  <<"method", m.name, count_nl(original, m.start - 1) + 1>>
                      \in Lexemes(Brief(elements))
        /\ (original = FooBarFile =>
              Brief(elements) = << <<"class", "Foo", 1>>, <<"method", "bar", 2>> >>)

\* a line of a documentation block: starts with "/**" or "*", ends with "*/", or
\* is a "//" line
IsDocLine(line) ==
    LET l == strip(line)
    IN  l # <<>> /\ (Head(l) \in {DocOpen, Star, LineMark} \/ l[Len(l)] = DocClose)

\* the nearest non-blank line above line n is a line of a documentation block
DocBlockBefore(lines, n) ==
    \E j \in 1..(n - 1) :
        /\ IsDocLine(lines[j])
        /\ \A i \in (j + 1)..(n - 1) : strip(lines[i]) = <<>>

\* C4: no element parse returns has a documentation block immediately before it
\* (lines of "/**" blocks or "//" lines, blank lines allowed), an empty "/** */"
\* block and a lone "//" line included.
C4_NoDocumentedElement ==
    k >= 1 =>
        \A i \in 1..Len(elements) :
            /\ elements[i].existing_comment = None
            /\ ~DocBlockBefore(content_lines, elements[i].line_number)

\* C5: parse finds no element in the text the pipeline wrote.
C5_SecondPassEmpty ==
    pc = "done" => parse(disk) = <<>>

\* C10: the file is written at most once, and only when every insertion has been
\* applied to the buffer; if a step raises, the file keeps its original text.
C10_WriteAfterAll ==
    /\ writes <= 1
    /\ (writes = 0 => disk = original)
    /\ (writes = 1 => /\ pc = "done"
                      /\ Len(comments) = Len(elements)
                      /\ Len(modified_lines) = Len(content_lines) + Len(elements)
                      /\ disk = join(modified_lines))
    /\ (pc = "raised" => disk = original /\ writes = 0)

\* the loop raised after one comment was inserted in the buffer
C10_Witness ==
    /\ pc = "raised"
    /\ Len(comments) >= 1
    /\ k <= Len(elements)
    /\ modified_lines # content_lines
    /\ disk = original

\* ------------------------------------------------------------------------
\* Properties of process_java_files (under RunSpec)
\* ------------------------------------------------------------------------
\* C11: an exception raised while one file is processed is caught at the per-file
\* boundary and does not abort the run: process_java_file is called for the files
\* in list order, and the run only stops when it has been called for every file
\* of the list, whatever the outcome of the earlier files (between two files, after
\* a return and after a raise the loop can always go on).
C11_RunContinues ==
    /\ processed = [i \in 1..Len(processed) |-> i]
    /\ \A i \in 1..Len(caught) : caught[i] \in 1..Len(processed)
    /\ (pc = "next_file" => Len(processed) = file_pos - 1)
    /\ (pc = "next_file" => ENABLED (StartFile \/ RunReturns))
    /\ (pc = "done" => ENABLED FileReturns)
    /\ (pc = "raised" => ENABLED CatchException)
    /\ (pc \notin {"next_file", "idle", "loop", "done", "raised"}
          => (pc = "run_done" /\ Len(processed) = Len(java_files)))

\* the first file raised, the second was rewritten with a comment, the third ran
C11_Witness ==
    /\ pc = "run_done"
    /\ Len(java_files) = 3
    /\ processed = <<1, 2, 3>>
    /\ caught[1] = 1
    /\ DocOpen \in Lexemes(java_files[2])

\* ------------------------------------------------------------------------
\* Properties of JavaParser.parse (under ParseSpec)
\* ------------------------------------------------------------------------
\* C12: the list parse returns is sorted by line_number and strictly increasing:
\* no two returned elements share a start line, several declarations on one
\* physical line included.
C12_StrictlyIncreasing ==
    pc = "parsed" =>
        \A i, j \in 1..Len(elements) :
            i < j => elements[i].line_number < elements[j].line_number

\* C12 as amended: the list parse returns is sorted by line_number in
\* non-decreasing order, every line number is a line of the text, and the list
\* holds one element for each match the two loops kept (matches that begin on
\* the same physical line give elements with the same line number).
C12_NonDecreasing ==
    pc = "parsed" =>
        LET kept == class_elements(disk) \o method_elements(disk)
        IN  /\ \A i, j \in 1..Len(elements) :
                  i < j => elements[i].line_number <= elements[j].line_number
            /\ \A i \in 1..Len(elements) :
                  elements[i].line_number \in 1..Len(split(disk))
            /\ Len(elements) = Len(kept)
            /\ Lexemes(elements) = Lexemes(kept)

\* two declarations on one physical line were returned with the same line number
C12_Witness ==
    /\ pc = "parsed"
    /\ disk = join(<<CloseLine, TwoClassLine>>)
    /\ Brief(elements) = << <<"class", "Foo", 2>>, <<"class", "B", 2>> >>

\* C13: parse returns no method element whose name starts with get, set or is,
\* whether or not the method is documented.
C13_NoAccessor ==
    pc = "parsed" =>
        \A i \in 1..Len(elements) :
            ~(elements[i].type = "method" /\ StartsWithAccessor(elements[i].name))

\* a text with an undocumented getter and a class was parsed
C13_Witness ==
    /\ pc = "parsed"
    /\ disk = join(<<ClassFooLine, GetterLine>>)
    /\ Len(method_finditer(disk)) = 1
    /\ method_finditer(disk)[1].name = "getX"
    /\ Brief(elements) = << <<"class", "Foo", 1>> >>

\* C15: an undocumented declaration "interface A {" or "enum B {" (optional
\* modifiers) is returned by parse as an element of kind interface or enum at its
\* line, just as "class Foo {" is returned with kind class.
C15_InterfaceEnumReturned ==
    pc = "parsed" =>
        LET lines == split(disk)
        IN  \A i \in 1..Len(lines) :
                ~DocBlockBefore(lines, i) =>
                    /\ lines[i] = ClassFooLine
                          => <<"class", "Foo", i>> \in Lexemes(Brief(elements))
                    /\ lines[i] = InterfaceLine
                          => <<"interface", "A", i>> \in Lexemes(Brief(elements))
                    /\ lines[i] = EnumLine
                          => <<"enum", "B", i>> \in Lexemes(Brief(elements))

\* ------------------------------------------------------------------------
\* Properties of the indentation (under IndentSpec)
\* ------------------------------------------------------------------------
\* the leading white space of a line
leading_space(line) == SubSeq(line, 1, Len(line) - Len(lstrip(line)))

\* C14: every non-blank line of an inserted comment is prefixed with exactly the
\* leading white space (same characters, tabs included) of the first line of its
\* own target declaration, and blank comment lines are left unprefixed, for
\* every element of the file.
C14_IndentOfTarget ==
    (pc = "loop" /\ k >= 2) =>
        LET prefix == leading_space(content_lines[elements[k - 1].line_number])
            raw == splitlines(comment)
            got == splitlines(comments[k - 1])
        IN  /\ Len(got) = Len(raw)
            /\ \A i \in 1..Len(raw) :
                  got[i] = IF strip(raw[i]) # <<>> THEN prefix \o raw[i] ELSE raw[i]

\* ------------------------------------------------------------------------
\* Properties of the context window (under ContextSpec)
\* ------------------------------------------------------------------------
LinesBefore(type) == IF type = "class" THEN 10 ELSE 5
LinesAfter(type) == IF type = "class" THEN 19 ELSE IF type = "method" THEN 14 ELSE 4

\* C16: for an element that starts at line s of an n-line file the context is the
\* run of original lines s-10..s+19 (class), s-5..s+14 (method), s-5..s+4 (field),
\* clamped to 1..n: building it never raises, it has at most 30, 20 and 10 lines
\* and it holds line s.
C16_ContextWindow ==
    /\ pc # "raised"
    /\ (pc \in {"api", "field_api", "returned"}) =>
          LET s == element.line_number
              lo == Max(1, s - LinesBefore(element.type))
              hi == Min(Len(content_lines), s + LinesAfter(element.type))
              window == split(context)
          IN  /\ window = SubSeq(content_lines, lo, hi)
              /\ Len(window) <= LinesBefore(element.type) + 1 + LinesAfter(element.type)
              /\ content_lines[s] \in Lexemes(window)

\* a class in the middle of a file longer than the window: both ends are cut
C16_Witness ==
    /\ pc = "api"
    /\ element.type = "class"
    /\ element.line_number = 11
    /\ Len(content_lines) = 32
    /\ Len(split(context)) = 30
    /\ split(context)[1] = content_lines[1]
    /\ split(context)[30] = content_lines[30]

\* ------------------------------------------------------------------------
\* Properties of the field comment (under GenSpec)
\* ------------------------------------------------------------------------
\* C17: for a field element and any text the backend returns, a multi-line text
\* included, the comment generate_comment returns is a single line that starts
\* with "//"; the prefix is prepended when the text does not start with it.
C17_FieldOneLine ==
    (pc = "returned" /\ element.type = "field" /\ source = "backend") =>
        /\ comment # <<>>
        /\ Head(comment) = LineMark
        /\ NL \notin Lexemes(comment)

\* ------------------------------------------------------------------------
\* Properties of the written text (under Spec)
\* ------------------------------------------------------------------------
\* the entries of lines whose index is not in P
RECURSIVE without(_, _, _)
without(lines, P, i) ==
    IF i > Len(lines) THEN <<>>
    ELSE (IF i \in P THEN <<>> ELSE <<lines[i]>>) \o without(lines, P, i + 1)

\* C18: process_java_file changes a file only by adding comment lines: the
\* written text is the buffer, and with the inserted comments removed it equals
\* the original text exactly; a file with no element is written back identical
\* to what was read, its final line terminator included.
C18_OnlyCommentsAdded ==
    pc = "done" =>
        /\ disk = join(modified_lines)
        /\ (elements = <<>> => disk = original)
        /\ \E P \in SUBSET (1..Len(modified_lines)) :
              /\ Cardinality(P) = Len(comments)
              /\ \A p \in P : modified_lines[p] \in Lexemes(comments)
              /\ join(without(modified_lines, P, 1)) = original

====
